---- MODULE Spec2Model ----
(***************************************************************************)
(* Model of pyrobosim/planning/pddlstream/utils.py:                        *)
(*   world_to_pddlstream_init    (the fact encoder)                        *)
(*   pddlstream_solution_to_plan (the plan decoder)                        *)
(* Both are pure functions.  Each is an operator computed the way the      *)
(* code computes it; a specification draws its inputs from bounded sets    *)
(* and an action applies it.                                               *)
(***************************************************************************)
EXTENDS Integers, Sequences, FiniteSets, TLC

VARIABLES world, init, prev_world, prev_init, solution, plan_out

vars == <<world, init, prev_world, prev_init, solution, plan_out>>

(***************************************************************************)
(* Bounds of the model.                                                    *)
(***************************************************************************)
\* Longest world.objects list that is enumerated.
MaxObjects == 2
\* Longest planner action sequence that is enumerated.
MaxPlanLen == 2
\* Most arguments an action carries after its third.
MaxExtraArgs == 1

(***************************************************************************)
(* Values.  Python's None and every domain object are strings, so that     *)
(* any two values can be compared; an object is its identity.              *)
(***************************************************************************)
NoneVal == "None"

RobotName == "Bot"
RobotPose == "pose0"
RoomIds == {"kitchen"}
LocIds == {"table0", "counter0"}
ObjIds == {"apple0", "banana0"}
\* An object that is never a member of world.objects.
GhostObj == "ghost0"
Categories == {"table", "fruit"}

\* loc.children: the object spawns of each location.
Children == [l \in LocIds |->
               IF l = "table0" THEN <<"table0_top">>
               ELSE <<"counter0_left", "counter0_right">>]
\* loc.parent: the room of each location.
LocParent == [l \in LocIds |-> "kitchen"]
\* obj.parent: the spawn each object lies at.
ObjParent == [o \in ObjIds |->
                IF o = "apple0" THEN "table0_top" ELSE "counter0_left"]

\* All sequences over S of length at most n.
RECURSIVE SeqsUpTo(_, _)
SeqsUpTo(S, n) ==
  IF n = 0 THEN {<<>>}
  ELSE LET shorter == SeqsUpTo(S, n - 1)
       IN shorter \cup {Append(s, x) : s \in {t \in shorter : Len(t) = n - 1}, x \in S}

\* The orders in which a Python set of category labels may be iterated.
CategoryOrders == {<<"table", "fruit">>, <<"fruit", "table">>}

\* The world models handed to the encoder.
Worlds ==
  [ robot : [ name : {RobotName},
              location : {NoneVal, "table0_top"},
              pose : {RobotPose},
              manipulated_object : {NoneVal, GhostObj} \cup ObjIds ],
    pose_location : {NoneVal, "kitchen"},
    rooms : {<<"kitchen">>},
    locations : {<<>>, <<"table0">>, <<"table0", "counter0">>},
    objects : SeqsUpTo(ObjIds, MaxObjects),
    category : [LocIds \cup ObjIds -> Categories] ]

(***************************************************************************)
(* Python list helpers.                                                    *)
(***************************************************************************)
\* x in list
Contains(list, x) == \E i \in 1..Len(list) : list[i] = x

\* list.remove(x): drops the first occurrence (the caller checks Contains,
\* Python raises ValueError when there is none).
ListRemove(list, x) ==
  LET i == CHOOSE k \in 1..Len(list) :
             list[k] = x /\ \A j \in 1..(k - 1) : list[j] # x
  IN SubSeq(list, 1, i - 1) \o SubSeq(list, i + 1, Len(list))

\* How many times x occurs in list.
RECURSIVE Count(_, _)
Count(list, x) ==
  IF list = <<>> THEN 0
  ELSE (IF Head(list) = x THEN 1 ELSE 0) + Count(Tail(list), x)

\* The elements of a list, as a set.
Range(list) == {list[i] : i \in 1..Len(list)}

(***************************************************************************)
(* world_to_pddlstream_init                                                *)
(***************************************************************************)
\* A fact is a tuple: the predicate name followed by its arguments.
HandEmptyFact(robot) == <<"HandEmpty", robot.name>>
HoldingFact(robot, obj) == <<"Holding", robot.name, obj>>

\* Lines 35-37: the recorded location, or the one looked up from the pose.
\* world.get_location_from_pose(robot.pose) answers w.pose_location.
InitLoc(w) ==
  IF w.robot.location = NoneVal THEN w.pose_location ELSE w.robot.location

\* Mutant: the robot fact Pose carries the robot as well as the pose.
RobotFacts_PoseOfRobot(w) ==
  << <<"Robot", w.robot.name>>,
     HandEmptyFact(w.robot),
     <<"At", w.robot.name, InitLoc(w)>>,
     <<"Pose", w.robot.name, w.robot.pose>>,
     <<"AtPose", w.robot.name, w.robot.pose>> >>

\* Mutant: the hand state is read off the reference before the object loop.
RobotFacts_TrustReference(w) ==
  << <<"Robot", w.robot.name>>,
     IF w.robot.manipulated_object = NoneVal
       THEN HandEmptyFact(w.robot)
       ELSE HoldingFact(w.robot, w.robot.manipulated_object),
     <<"At", w.robot.name, InitLoc(w)>>,
     <<"Pose", w.robot.pose>>,
     <<"AtPose", w.robot.name, w.robot.pose>> >>

\* Lines 38-42: the robot initial conditions.
RobotFacts(w) ==
  << <<"Robot", w.robot.name>>,
     HandEmptyFact(w.robot),
     <<"At", w.robot.name, InitLoc(w)>>,
     <<"Pose", w.robot.pose>>,
     <<"AtPose", w.robot.name, w.robot.pose>> >>

\* Lines 46-48: two facts per room.
RECURSIVE RoomFacts(_)
RoomFacts(rooms) ==
  IF rooms = <<>> THEN <<>>
  ELSE << <<"Room", Head(rooms)>>, <<"Location", Head(rooms)>> >>
         \o RoomFacts(Tail(rooms))

\* Lines 51-54: three facts per object spawn of location loc.
RECURSIVE SpawnFacts(_, _, _)
SpawnFacts(w, loc, spawns) ==
  IF spawns = <<>> THEN <<>>
  ELSE << <<"Location", Head(spawns)>>,
          <<"Is", Head(spawns), w.category[loc]>>,
          <<"AtRoom", Head(spawns), LocParent[loc]>> >>
         \o SpawnFacts(w, loc, Tail(spawns))

\* Lines 50-54: the loop over world.locations.
RECURSIVE LocationFacts(_, _)
LocationFacts(w, locs) ==
  IF locs = <<>> THEN <<>>
  ELSE SpawnFacts(w, Head(locs), Children[Head(locs)])
         \o LocationFacts(w, Tail(locs))

\* Lines 56-57 and 72-73: one Type fact per member of a set of categories,
\* in the set's iteration order.
TypeFacts(cats, order) ==
  LET seen == SelectSeq(order, LAMBDA c : c \in cats)
  IN [i \in 1..Len(seen) |-> <<"Type", seen[i]>>]

\* Mutant: the location categories are kept in a list, not a set.
LocTypeFacts_NoDedup(w, order) ==
  [i \in 1..Len(w.locations) |-> <<"Type", w.category[w.locations[i]]>>]

\* Lines 49, 55-57: the Type facts of the location categories.
LocTypeFacts(w, order) ==
  TypeFacts({w.category[l] : l \in Range(w.locations)}, order)

\* Mutant: the held object is also put at its parent location.
ObjectFacts_AtWhenHeld(w, obj, acc) ==
  LET seen == acc \o << <<"Obj", obj>>, <<"Is", obj, w.category[obj]>> >>
  IN IF w.robot.manipulated_object = obj
       THEN IF Contains(seen, HandEmptyFact(w.robot))
              THEN [raised |-> FALSE,
                    init |-> ListRemove(seen, HandEmptyFact(w.robot))
                               \o << HoldingFact(w.robot, obj),
                                     <<"At", obj, ObjParent[obj]>> >>]
              ELSE [raised |-> TRUE, init |-> seen]
       ELSE [raised |-> FALSE,
             init |-> Append(seen, <<"At", obj, ObjParent[obj]>>)]

\* Lines 62-70: the body of the loop over world.objects, on the fact list
\* acc. init.remove raises ValueError when HandEmpty is no longer there.
ObjectFacts(w, obj, acc) ==
  LET seen == acc \o << <<"Obj", obj>>, <<"Is", obj, w.category[obj]>> >>
  IN IF w.robot.manipulated_object = obj
       THEN IF Contains(seen, HandEmptyFact(w.robot))
              THEN [raised |-> FALSE,
                    init |-> Append(ListRemove(seen, HandEmptyFact(w.robot)),
                                    HoldingFact(w.robot, obj))]
              ELSE [raised |-> TRUE, init |-> seen]
       ELSE [raised |-> FALSE,
             init |-> Append(seen, <<"At", obj, ObjParent[obj]>>)]

\* Line 61: the loop over world.objects; an exception ends it.
RECURSIVE ObjectLoop(_, _, _)
ObjectLoop(w, objs, acc) ==
  IF objs = <<>> THEN [raised |-> FALSE, init |-> acc]
  ELSE LET step == ObjectFacts(w, Head(objs), acc)
       IN IF step.raised THEN step
          ELSE ObjectLoop(w, Tail(objs), step.init)

\* Lines 60, 71-73: the Type facts of the object categories.
ObjTypeFacts(w, order) ==
  TypeFacts({w.category[o] : o \in Range(w.objects)}, order)

\* Lines 22-75.  The result is the returned list, or the exception raised.
world_to_pddlstream_init(w, order) ==
  LET before == RobotFacts(w) \o RoomFacts(w.rooms)
                  \o LocationFacts(w, w.locations) \o LocTypeFacts(w, order)
      looped == ObjectLoop(w, w.objects, before)
  IN IF looped.raised
       THEN [status |-> "ValueError", value |-> <<>>]
       ELSE [status |-> "returned",
             value |-> looped.init \o ObjTypeFacts(w, order)]

\* No call of the encoder has ended yet.
Pending == [status |-> "pending", value |-> <<>>]
\* No earlier world.
NoWorld == [robot |-> [name |-> NoneVal, location |-> NoneVal, pose |-> NoneVal,
                       manipulated_object |-> NoneVal],
            pose_location |-> NoneVal, rooms |-> <<>>, locations |-> <<>>,
            objects |-> <<>>,
            category |-> [x \in LocIds \cup ObjIds |-> "table"]]

\* The planner's solution is not looked at by the encoder.
NoSolution == [absent |-> TRUE, plan |-> <<>>, total_cost |-> 0]
NoPlanOut == [status |-> "pending", actions |-> <<>>, total_cost |-> 0]

InitEncoder ==
  /\ world \in Worlds
  /\ init = Pending
  /\ prev_world = NoWorld
  /\ prev_init = Pending
  /\ solution = NoSolution
  /\ plan_out = NoPlanOut

\* A call of world_to_pddlstream_init(world).
Encode ==
  /\ init.status = "pending"
  /\ \E order \in CategoryOrders :
       init' = world_to_pddlstream_init(world, order)
  /\ UNCHANGED <<world, prev_world, prev_init, solution, plan_out>>

\* The world model changes the robot's manipulated-object reference between
\* two encoder calls; the earlier world and result are kept for comparison.
SetManipulatedObject ==
  /\ init.status = "returned"
  /\ prev_init.status = "pending"
  /\ \E o \in {NoneVal, GhostObj} \cup ObjIds :
       /\ o # world.robot.manipulated_object
       /\ world' = [world EXCEPT !.robot.manipulated_object = o]
  /\ prev_world' = world
  /\ prev_init' = init
  /\ init' = Pending
  /\ UNCHANGED <<solution, plan_out>>

NextEncoder == Encode \/ SetManipulatedObject

SpecEncoder == InitEncoder /\ [][NextEncoder]_vars

(***************************************************************************)
(* Properties of the encoder, checked under SpecEncoder.                   *)
(***************************************************************************)
Facts == Range(init.value)
Robot == world.robot
Held == Robot.manipulated_object
\* The facts Holding(r, o), whatever o is.
HoldingFacts == {f \in Facts : f[1] = "Holding" /\ f[2] = Robot.name}
\* The facts At(r, loc), whatever loc is.
RobotAtFacts == {f \in Facts : f[1] = "At" /\ f[2] = Robot.name}
\* The reference is set and points outside world.objects.
Dangling == Held # NoneVal /\ Held \notin Range(world.objects)

\* C1: every call returns a fact list, and the list holds HandEmpty(r) or a
\* Holding(r, o) fact, never both and never neither.
C1_ExactlyOneHandFact ==
  init.status # "pending" =>
    /\ init.status = "returned"
    /\ (HandEmptyFact(Robot) \in Facts) # (HoldingFacts # {})

\* C2 as stated: with a dangling reference the result holds Holding(r, ref)
\* and not HandEmpty(r).
C2_DanglingStillHolding ==
  (init.status # "pending" /\ Dangling) =>
    /\ init.status = "returned"
    /\ HoldingFact(Robot, Held) \in Facts
    /\ HandEmptyFact(Robot) \notin Facts

\* C2 amended: with a dangling reference the call returns, HandEmpty(r) stays
\* in the result and no Holding fact is emitted.
C2_DanglingKeepsHandEmpty ==
  (init.status # "pending" /\ Dangling) =>
    /\ init.status = "returned"
    /\ HandEmptyFact(Robot) \in Facts
    /\ HoldingFacts = {}

C2_Witness ==
  /\ init.status = "returned"
  /\ Held = GhostObj
  /\ world.objects # <<>>

\* C3: a returned list has no At fact of the robot when no location is
\* recorded or resolved, and exactly At(r, loc) when one is.
C3_NoAtWithoutLocation ==
  init.status = "returned" =>
    IF InitLoc(world) = NoneVal
      THEN RobotAtFacts = {}
      ELSE RobotAtFacts = {<<"At", Robot.name, InitLoc(world)>>}

\* The two encoder calls were on worlds that differ only in the reference:
\* unset in world wu, set to object o of the world in wh.
TogglePair(wu, wh, o) ==
  /\ o \in Range(wh.objects)
  /\ wu.robot.manipulated_object = NoneVal
  /\ wh.robot.manipulated_object = o
  /\ wu = [wh EXCEPT !.robot.manipulated_object = NoneVal]

\* C4 as stated: the fact sets fu (reference unset) and fh (reference set to
\* o) differ by the pair HandEmpty(r) / Holding(r, o) and by nothing else.
OnlyHandPairDiffers(fu, fh, o) ==
  /\ fu \ fh = {HandEmptyFact(Robot)}
  /\ fh \ fu = {HoldingFact(Robot, o)}

\* C4 amended: the fact sets also differ by At(o, parent(o)), which only the
\* world with the reference unset yields.
HandPairAndAtDiffer(fu, fh, o) ==
  /\ fu \ fh = {HandEmptyFact(Robot), <<"At", o, ObjParent[o]>>}
  /\ fh \ fu = {HoldingFact(Robot, o)}

\* C4 as stated.
C4_ToggleOnlyHandPair ==
  (prev_init.status = "returned" /\ init.status = "returned") =>
    \A o \in ObjIds :
      /\ TogglePair(prev_world, world, o) =>
           OnlyHandPairDiffers(Range(prev_init.value), Facts, o)
      /\ TogglePair(world, prev_world, o) =>
           OnlyHandPairDiffers(Facts, Range(prev_init.value), o)

\* C4 amended: when o occurs once in world.objects both calls return and the
\* fact sets differ by HandEmpty(r) and At(o, parent(o)) on one side and
\* Holding(r, o) on the other.
C4_ToggleHandPairAndAt ==
  (prev_init.status = "returned" /\ init.status # "pending") =>
    \A o \in ObjIds :
      /\ (TogglePair(prev_world, world, o) /\ Count(world.objects, o) = 1) =>
           /\ init.status = "returned"
           /\ HandPairAndAtDiffer(Range(prev_init.value), Facts, o)
      /\ TogglePair(world, prev_world, o) =>
           /\ init.status = "returned"
           /\ HandPairAndAtDiffer(Facts, Range(prev_init.value), o)

C4_Witness ==
  /\ prev_init.status = "returned"
  /\ init.status = "returned"
  /\ TogglePair(prev_world, world, "apple0")
  /\ Len(world.objects) = 2
  /\ world.locations # <<>>

\* The categories that appear among the world's locations.
LocCategories == {world.category[l] : l \in Range(world.locations)}
\* The categories that appear among the world's objects.
ObjCategories == {world.category[o] : o \in Range(world.objects)}

\* C5 as stated: every location category has exactly one Type fact in the
\* returned list.
C5_OneTypePerLocCategory ==
  init.status = "returned" =>
    \A c \in LocCategories : Count(init.value, <<"Type", c>>) = 1

\* C5 amended: a location category has one Type fact in the returned list,
\* and a second one when an object of the world has the same category.
C5_TypePerLocCategory ==
  init.status = "returned" =>
    \A c \in LocCategories :
      Count(init.value, <<"Type", c>>) =
        IF c \in ObjCategories THEN 2 ELSE 1

C5_Witness ==
  /\ init.status = "returned"
  /\ Len(world.locations) = 2
  /\ Cardinality(LocCategories) = 1
  /\ LocCategories \cap ObjCategories # {}

\* The predicate vocabulary of the specification, name and argument count.
SpecVocabulary ==
  { <<"Robot", 1>>, <<"HandEmpty", 1>>, <<"At", 2>>, <<"Pose", 2>>,
    <<"AtPose", 2>>, <<"Room", 1>>, <<"Location", 1>>, <<"Is", 2>>,
    <<"AtRoom", 2>>, <<"Type", 1>>, <<"Obj", 1>>, <<"Holding", 2>> }

\* The same vocabulary with the pose predicate taking the pose alone.
CodeVocabulary ==
  (SpecVocabulary \ {<<"Pose", 2>>}) \cup {<<"Pose", 1>>}

Signature(f) == <<f[1], Len(f) - 1>>

\* C6 as stated: every emitted fact is in the vocabulary with Pose/2.
C6_SpecVocabulary ==
  init.status = "returned" =>
    \A f \in Facts : Signature(f) \in SpecVocabulary

\* C6 amended: every emitted fact is in the vocabulary with Pose/1, and the
\* robot pose fact is Pose(pose).
C6_CodeVocabulary ==
  init.status = "returned" =>
    /\ \A f \in Facts : Signature(f) \in CodeVocabulary
    /\ <<"Pose", Robot.pose>> \in Facts

C6_Witness ==
  /\ init.status = "returned"
  /\ HoldingFacts # {}
  /\ Len(world.objects) = 2
  /\ Len(world.locations) = 2

(***************************************************************************)
(* pddlstream_solution_to_plan                                             *)
(***************************************************************************)
\* The values isinstance(arg, Path) holds of.
PathValues == {"path1"}
\* The other values an action carries after its third argument.
PoseValues == {"pose1"}
IsPath(arg) == arg \in PathValues

ActionNames == {"navigate", "pick", "place", "detect"}

\* The first three arguments the planner gives an action of each name:
\* the robot, then two locations or an object and a location.
BaseArgs(name) ==
  IF name = "navigate" THEN <<"Bot", "S", "Kitchen">>
  ELSE IF name \in {"pick", "place"} THEN <<"Bot", "O", "S">>
  ELSE <<"Bot", "O", "Kitchen">>

\* The planner's actions: a name and a positional argument sequence.
PddlActions ==
  { [name |-> n, args |-> BaseArgs(n) \o extra] :
      n \in ActionNames,
      extra \in SeqsUpTo(PathValues \cup PoseValues, MaxExtraArgs) }

\* The planner's total costs, in tenths.
Costs == {0, 45}

\* The solutions handed to the decoder: (plan, total_cost, _), where the
\* plan is None (absent) or an action sequence.
Solutions ==
  [absent : {TRUE}, plan : {<<>>}, total_cost : Costs]
    \cup [absent : {FALSE}, plan : SeqsUpTo(PddlActions, MaxPlanLen),
          total_cost : Costs]

\* TaskAction(name): the typed action with only its type set.
TaskAction(name) ==
  [type |-> name, object |-> NoneVal, source_location |-> NoneVal,
   target_location |-> NoneVal, pose |-> NoneVal, path |-> NoneVal]

\* Lines 102-104: every Path among args is assigned in turn, the last stays.
RECURSIVE SearchPath(_, _)
SearchPath(args, path) ==
  IF args = <<>> THEN path
  ELSE SearchPath(Tail(args), IF IsPath(Head(args)) THEN Head(args) ELSE path)

\* Mutant: the search for a path starts one argument late.
ParseNavigate_SkipsFourth(act, args) ==
  [act EXCEPT !.source_location = args[2],
              !.target_location = args[3],
              !.path = SearchPath(SubSeq(args, 5, Len(args)), act.path)]

\* Lines 99-104: a navigate action.  Python's args[k] is args[k + 1] here.
ParseNavigate(act, args) ==
  [act EXCEPT !.source_location = args[2],
              !.target_location = args[3],
              !.path = SearchPath(SubSeq(args, 4, Len(args)), act.path)]

\* Mutant: the pose is read only when a fifth argument is present.
ParsePickPlace_PoseOffByOne(act, args) ==
  LET parsed == [act EXCEPT !.object = args[2], !.target_location = args[3]]
  IN IF Len(args) > 4 THEN [parsed EXCEPT !.pose = args[4]] ELSE parsed

\* Lines 107-111: a pick or place action.
ParsePickPlace(act, args) ==
  LET parsed == [act EXCEPT !.object = args[2], !.target_location = args[3]]
  IN IF Len(args) > 3 THEN [parsed EXCEPT !.pose = args[4]] ELSE parsed

\* Lines 96-111: the TaskAction of one planner action.
DecodeAction(act_pddl) ==
  LET act == TaskAction(act_pddl.name)
  IN IF act.type = "navigate" THEN ParseNavigate(act, act_pddl.args)
     ELSE IF act.type = "pick" \/ act.type = "place"
       THEN ParsePickPlace(act, act_pddl.args)
     ELSE act

\* Mutant: an action with an unknown tag is left out of the plan.
DecodeActions_DropsUnknown(plan, actions) ==
  LET known == SelectSeq(plan,
                 LAMBDA a : a.name \in {"navigate", "pick", "place"})
  IN actions \o [i \in 1..Len(known) |-> DecodeAction(known[i])]

\* Lines 94-114: the loop over the plan, appending to plan_out.actions.
RECURSIVE DecodeActions(_, _)
DecodeActions(plan, actions) ==
  IF plan = <<>> THEN actions
  ELSE DecodeActions(Tail(plan), Append(actions, DecodeAction(Head(plan))))

\* Mutant: only an absent plan counts as no plan.
NoPlan_OnlyAbsent(sol) == sol.absent

\* Line 90: plan is None or len(plan) == 0.
NoPlan(sol) == sol.absent \/ Len(sol.plan) = 0

\* Line 118: the plan's total cost.
TotalCost(sol) == sol.total_cost

\* Lines 78-119.  The result is None or a TaskPlan.
pddlstream_solution_to_plan(sol) ==
  IF NoPlan(sol)
    THEN [status |-> "None", actions |-> <<>>, total_cost |-> 0]
    ELSE [status |-> "TaskPlan",
          actions |-> DecodeActions(sol.plan, <<>>),
          total_cost |-> TotalCost(sol)]

InitDecoder ==
  /\ solution \in Solutions
  /\ plan_out = NoPlanOut
  /\ world = NoWorld
  /\ init = Pending
  /\ prev_world = NoWorld
  /\ prev_init = Pending

\* A call of pddlstream_solution_to_plan(solution).
Decode ==
  /\ plan_out.status = "pending"
  /\ plan_out' = pddlstream_solution_to_plan(solution)
  /\ UNCHANGED <<world, init, prev_world, prev_init, solution>>

NextDecoder == Decode

SpecDecoder == InitDecoder /\ [][NextDecoder]_vars

(***************************************************************************)
(* Properties of the decoder, checked under SpecDecoder.                   *)
(***************************************************************************)
Decoded == plan_out.status # "pending"
Plan == solution.plan
\* The positions of the plan whose action has one of the given names.
Positions(names) == {i \in 1..Len(Plan) : Plan[i].name \in names}

C8_OneActionPerPlannerAction ==
  (Decoded /\ ~solution.absent /\ Len(Plan) > 0) =>
    /\ plan_out.status = "TaskPlan"
    /\ Len(plan_out.actions) = Len(Plan)
    /\ \A i \in 1..Len(Plan) : plan_out.actions[i].type = Plan[i].name
    /\ \A i \in Positions(ActionNames \ {"navigate", "pick", "place"}) :
         plan_out.actions[i] =
           [type |-> Plan[i].name, object |-> NoneVal,
            source_location |-> NoneVal, target_location |-> NoneVal,
            pose |-> NoneVal, path |-> NoneVal]

C8_Witness ==
  /\ plan_out.status = "TaskPlan"
  /\ Len(Plan) = 2
  /\ Plan[1].name = "detect"
  /\ Plan[2].name = "navigate"
  /\ Len(plan_out.actions) = 2

\* The Path values among the arguments after the third.
PathArgs(args) == {args[k] : k \in {j \in 4..Len(args) : IsPath(args[j])}}

\* C9: a navigate action gets its source from argument 2, its target from
\* argument 3 and its path from a Path among the later arguments, or no
\* path when there is none; the plan's total cost is the solution's.
C9_Navigate ==
  plan_out.status = "TaskPlan" =>
    /\ plan_out.total_cost = solution.total_cost
    /\ \A i \in Positions({"navigate"}) :
         LET act == plan_out.actions[i]
             args == Plan[i].args
         IN /\ act.source_location = args[2]
            /\ act.target_location = args[3]
            /\ IF PathArgs(args) = {} THEN act.path = NoneVal
                                      ELSE act.path \in PathArgs(args)

C9_Witness ==
  /\ plan_out.status = "TaskPlan"
  /\ solution.total_cost = 45
  /\ Plan = << [name |-> "navigate",
                args |-> <<"Bot", "S", "Kitchen", "path1">>] >>
  /\ plan_out.actions[1].path = "path1"
  /\ plan_out.total_cost = 45

\* C10: a pick or place action gets its object from argument 2 and its
\* target from argument 3; its pose is the fourth argument when there is
\* one and stays unset when there are three.
C10_PickPlace ==
  plan_out.status = "TaskPlan" =>
    \A i \in Positions({"pick", "place"}) :
      LET act == plan_out.actions[i]
          args == Plan[i].args
      IN /\ act.object = args[2]
         /\ act.target_location = args[3]
         /\ act.pose = (IF Len(args) > 3 THEN args[4] ELSE NoneVal)

C10_Witness ==
  /\ plan_out.status = "TaskPlan"
  /\ Len(Plan) = 2
  /\ Plan[1] = [name |-> "pick", args |-> <<"Bot", "O", "S">>]
  /\ Plan[2] = [name |-> "place", args |-> <<"Bot", "O", "S", "pose1">>]
  /\ plan_out.actions[1].pose = NoneVal
  /\ plan_out.actions[2].pose = "pose1"

====
